---- MODULE Spec2Model ----
(***************************************************************************)
(* A model of xwax's JACK backend (jack.c): the process-wide client, the   *)
(* deck registry, the per-deck hooks start/stop/clear, and the process     *)
(* callback that the JACK server runs on its own thread.                   *)
(*                                                                         *)
(* Two threads are modelled.  The application thread calls jack_init and   *)
(* the hooks jack_init installed in a device; each such call is one        *)
(* action.  The JACK thread runs process_callback, one action per loop     *)
(* iteration, so the application thread can act between two decks of a     *)
(* cycle.  Answers of the JACK library and of malloc are inputs of the     *)
(* step that asks for them.  assert() is taken as compiled in: a failed    *)
(* assertion ends the process.                                             *)
(***************************************************************************)
EXTENDS Integers, Sequences, FiniteSets

\* jack.c:30
MAX_DECKS == 4

\* device.h: DEVICE_CHANNELS, asserted to be 2 at jack.c:169
DEVICE_CHANNELS == 2

\* Largest frame count the server hands to a cycle in this model.
MaxFrames == 2

\* The counter of jack_activate calls saturates here.
MaxActivateCalls == 2

\* The application takes the next device record to set up among this many
\* of its unused records.
FreshChoice == 2

\* One device record more than the registry holds, so a registration
\* beyond the capacity can be attempted.
Devices == 1..(MAX_DECKS + 1)

\* Frame counts of a cycle.
Frames == 1..MaxFrames

\* Sample rates the server may report.
Rates == {44100}

\* No device: the value of a device[] slot never assigned (a zeroed global).
NoDevice == 0

VARIABLES
    client,            \* jack.c:39  "NULL" or "open"
    rate,              \* jack.c:40  0 until recorded
    decks,             \* jack.c:40
    device,            \* jack.c:41  [0..MAX_DECKS-1 -> Devices \cup {NoDevice}]
    local,             \* dv->local of each device: "none", "alloc", "freed"
    hooks,             \* dv->start, dv->stop, dv->clear installed by jack_init
    cbInstalled,       \* the server holds process_callback for the client
    shutdownInstalled, \* the server holds shutdown_callback for the client
    active,            \* the client has been activated
    activateCalls,     \* number of jack_activate calls made (saturating)
    ret,               \* outcome of the most recent jack_init
    proc,              \* "running", "assert" (assertion failed), "crash"
    cbpc,              \* JACK thread: "idle" or "loop" (inside process_callback)
    n,                 \* loop index of process_callback
    nframes,           \* frame count of the running cycle
    callLog,           \* process_deck calls of the running cycle, in order
    lastRun,           \* what the most recent process_deck of the cycle did
    \* jack_init taken statement by statement, the heap and the server's
    \* calls (followed in SpecSteps only)
    ipc,               \* jack_init: "idle" or the line it stands before
    idv,               \* the device jack_init is setting up
    orphan,            \* a jack_t is allocated, not freed, and no pointer
                       \* to it is left
    notified,          \* the server has called shutdown_callback
    opens,             \* successful jack_client_open calls
    installs,          \* successful jack_set_process_callback calls
    \* one process_deck call taken with its samples (followed in SpecConv
    \* only)
    dpos,              \* number of steps of process_deck done
    dframes,           \* nframes of the call
    dtc,               \* dv->timecoder is set
    jin,               \* the input port buffers, one sequence per channel
    buf,               \* the local interleaved buffer, as far as written
    sent,              \* what timecoder_submit was given
    played,            \* what player_collect writes, interleaved
    jout,              \* the output port buffers, one sequence per channel
    oob,               \* buf was accessed beyond its 1024 * 2 samples
    wraps              \* how this build converts an out-of-range float

\* The state of jack.c, of the device records and of the two threads.
jackVars == <<client, rate, decks, device, local, hooks, cbInstalled,
              shutdownInstalled, active, activateCalls, ret, proc,
              cbpc, n, nframes, callLog, lastRun>>

stepVars == <<ipc, idv, orphan, notified, opens, installs>>

convVars == <<dpos, dframes, dtc, jin, buf, sent, played, jout, oob, wraps>>

vars == <<jackVars, stepVars, convVars>>

appVars == <<client, rate, decks, device, local, hooks, cbInstalled,
             shutdownInstalled, active, activateCalls, ret>>

cbVars == <<cbpc, n, nframes, callLog, lastRun>>

NoRun == [dv |-> NoDevice, tc |-> FALSE, events |-> <<>>, done |-> FALSE,
          rate |-> 0, null |-> 0]

JackInit ==
    /\ client = "NULL"
    /\ rate = 0
    /\ decks = 0
    /\ device = [i \in 0..(MAX_DECKS - 1) |-> NoDevice]
    /\ local = [d \in Devices |-> "none"]
    /\ hooks = [d \in Devices |-> FALSE]
    /\ cbInstalled = FALSE
    /\ shutdownInstalled = FALSE
    /\ active = FALSE
    /\ activateCalls = 0
    /\ ret = "none"
    /\ proc = "running"
    /\ cbpc = "idle"
    /\ n = 0
    /\ nframes = 0
    /\ callLog = <<>>
    /\ lastRun = NoRun

StepsInit ==
    /\ ipc = "idle"
    /\ idv = NoDevice
    /\ orphan = FALSE
    /\ notified = FALSE
    /\ opens = 0
    /\ installs = 0

\* No process_deck call is followed with its samples.
ConvIdle ==
    /\ dpos = 0
    /\ dframes = 0
    /\ dtc = FALSE
    /\ jin = <<>>
    /\ buf = <<>>
    /\ sent = <<>>
    /\ played = <<>>
    /\ jout = <<>>
    /\ oob = FALSE
    /\ wraps = TRUE

Init == JackInit /\ StepsInit /\ ConvIdle

\* ------------------------------------------------------------------------
\* Application thread

\* jack.c:133-158: where start_jack_client ends, given whether
\* jack_client_open returned a client and jack_set_process_callback 0.
start_jack_client_result(openOk, cbOk) ==
    IF ~openOk THEN "open"
    ELSE IF ~cbOk THEN "callback"
    ELSE "ok"

\* start_jack_client storing a handle whatever jack_client_open answered.
start_jack_client_handle(openOk, cbOk, r) ==
    /\ client' = "open"
    /\ cbInstalled' = (openOk /\ cbOk)
    /\ shutdownInstalled' = (openOk /\ cbOk)
    /\ rate' = IF openOk /\ cbOk THEN r ELSE rate

\* jack.c:133-158: the writes of start_jack_client.  client takes what
\* jack_client_open returned; the callbacks are installed and the rate is
\* recorded only past both checks.
start_jack_client(openOk, cbOk, r) ==
    /\ client' = IF openOk THEN "open" ELSE "NULL"
    /\ cbInstalled' = (openOk /\ cbOk)
    /\ shutdownInstalled' = (openOk /\ cbOk)
    /\ rate' = IF openOk /\ cbOk THEN r ELSE rate

\* jack_init setting the global services up on every call.
NeedClient_always == TRUE

\* jack.c:232: the global services are initialised when there is no client.
NeedClient == client = "NULL"

\* jack.c:163-189: register_ports; failAt = k > 0 means the k-th
\* jack_port_register (input L, output L, input R, output R) returned NULL.
register_ports(failAt) ==
    IF failAt = 0 THEN "ok" ELSE "ports"

\* The capacity assertion compiled out.
CanRegister_unchecked == TRUE

\* jack.c:254: assert(decks < MAX_DECKS)
CanRegister == decks < MAX_DECKS

\* jack.c:232-254: the stage at which jack_init ends: the failed stage,
\* "assert" when the assertion fails, or "ok".
jack_init_result(openOk, cbOk, mallocOk, failAt) ==
    IF NeedClient /\ start_jack_client_result(openOk, cbOk) # "ok"
        THEN start_jack_client_result(openOk, cbOk)
    ELSE IF ~mallocOk THEN "malloc"
    ELSE IF register_ports(failAt) # "ok" THEN "ports"
    ELSE IF CanRegister THEN "ok"
    ELSE "assert"

\* dv->local and the hooks written before register_ports is checked.
InstallsDevice_early(res) == res \in {"ok", "assert", "ports"}

\* jack.c:246-252: dv->local and the hooks are written once the client, the
\* allocation and the ports have succeeded, before the assertion.
InstallsDevice(res) == res \in {"ok", "assert"}

\* A device record handed to jack_init is one no backend has set up yet.
Uninitialised(dv) == local[dv] = "none" /\ ~hooks[dv]

\* The records the application may hand to jack_init next: the first
\* FreshChoice of its unused records, in any order.
Candidates ==
    {dv \in Devices :
        /\ Uninitialised(dv)
        /\ Cardinality({e \in Devices : Uninitialised(e) /\ e < dv}) < FreshChoice}

\* jack.c:226-258
jack_init(dv) ==
    /\ proc = "running"
    /\ dv \in Candidates
    /\ \E openOk \in (IF NeedClient THEN BOOLEAN ELSE {TRUE}),
          cbOk \in (IF NeedClient THEN BOOLEAN ELSE {TRUE}),
          r \in Rates,
          mallocOk \in BOOLEAN, failAt \in 0..(2 * DEVICE_CHANNELS) :
         LET res == jack_init_result(openOk, cbOk, mallocOk, failAt) IN
         /\ IF NeedClient
               THEN start_jack_client(openOk, cbOk, r)
               ELSE UNCHANGED <<client, cbInstalled, shutdownInstalled, rate>>
         /\ IF InstallsDevice(res)
               THEN /\ local' = [local EXCEPT ![dv] = "alloc"]
                    /\ hooks' = [hooks EXCEPT ![dv] = TRUE]
               ELSE UNCHANGED <<local, hooks>>
         /\ IF res = "ok"
               THEN /\ device' = [device EXCEPT ![decks] = dv]
                    /\ decks' = decks + 1
               ELSE UNCHANGED <<device, decks>>
         /\ proc' = IF res = "assert" THEN "assert" ELSE proc
         /\ ret' = IF res = "assert" THEN ret ELSE res
    /\ UNCHANGED <<active, activateCalls, cbVars>>
    /\ UNCHANGED <<stepVars, convVars>>

\* jack.c:194-203: every call asks the server to activate the client.
start(dv) ==
    /\ proc = "running"
    /\ hooks[dv]
    /\ \E ok \in BOOLEAN :
         /\ active' = (active \/ ok)
         /\ activateCalls' = IF activateCalls < MaxActivateCalls
                                THEN activateCalls + 1 ELSE activateCalls
    /\ UNCHANGED <<client, rate, decks, device, local, hooks, cbInstalled,
                   shutdownInstalled, ret, proc, cbVars>>
    /\ UNCHANGED <<stepVars, convVars>>

\* stop deactivating the shared client.
stop_deactivates(dv) ==
    /\ proc = "running"
    /\ hooks[dv]
    /\ active' = FALSE
    /\ UNCHANGED <<client, rate, decks, device, local, hooks, cbInstalled,
                   shutdownInstalled, activateCalls, ret, proc, cbVars>>
    /\ UNCHANGED <<stepVars, convVars>>

\* jack.c:208-211
stop(dv) ==
    /\ proc = "running"
    /\ hooks[dv]
    /\ UNCHANGED vars

\* clear taking the device out of the registry as well.
clear_unregisters(dv) ==
    /\ proc = "running"
    /\ hooks[dv]
    /\ local[dv] = "alloc"
    /\ local' = [local EXCEPT ![dv] = "freed"]
    /\ device' = [i \in DOMAIN device |->
                     IF device[i] = dv THEN NoDevice ELSE device[i]]
    /\ UNCHANGED <<client, rate, decks, hooks, cbInstalled, shutdownInstalled,
                   active, activateCalls, ret, proc, cbVars>>
    /\ UNCHANGED <<stepVars, convVars>>

\* jack.c:216-220: free(dv->local).  dv->local keeps its value; freeing it
\* a second time is undefined: the process goes on or dies.
clear(dv) ==
    /\ proc = "running"
    /\ hooks[dv]
    /\ \/ /\ local[dv] = "alloc"
          /\ local' = [local EXCEPT ![dv] = "freed"]
          /\ UNCHANGED proc
       \/ /\ local[dv] = "freed"
          /\ \E dies \in BOOLEAN :
               proc' = IF dies THEN "crash" ELSE proc
          /\ UNCHANGED local
    /\ UNCHANGED <<client, rate, decks, device, hooks, cbInstalled,
                   shutdownInstalled, active, activateCalls, ret, cbVars>>
    /\ UNCHANGED <<stepVars, convVars>>

\* shutdown_callback taking the client for gone.
shutdown_callback_deactivates ==
    /\ proc = "running"
    /\ shutdownInstalled
    /\ active' = FALSE
    /\ UNCHANGED <<client, rate, decks, device, local, hooks, cbInstalled,
                   shutdownInstalled, activateCalls, ret, proc, cbVars>>
    /\ UNCHANGED <<ipc, idv, orphan, opens, installs, convVars>>

\* jack.c:125-127: the server's shutdown notification; the body is empty.
shutdown_callback ==
    /\ proc = "running"
    /\ shutdownInstalled
    /\ UNCHANGED jackVars
    /\ UNCHANGED <<ipc, idv, orphan, opens, installs, convVars>>

\* ------------------------------------------------------------------------
\* JACK thread

\* process_deck submitting to the decoder without looking at dv->timecoder.
process_deck_steps_always_submit(tc) ==
    <<"in0", "in1", "interleave", "submit",
      "out0", "out1", "collect", "uninterleave">>

\* process_deck asking the player before it hands the input to the decoder.
process_deck_steps_collect_first(tc) ==
    <<"in0", "in1", "interleave", "out0", "out1", "collect">>
        \o (IF tc THEN <<"submit">> ELSE <<>>)
        \o <<"uninterleave">>

\* jack.c:88-105: the steps of process_deck in program order; tc says
\* whether dv->timecoder is set when line 94 reads it.
process_deck_steps(tc) ==
    <<"in0", "in1", "interleave">>
        \o (IF tc THEN <<"submit">> ELSE <<>>)
        \o <<"out0", "out1", "collect", "uninterleave">>

\* jack.c:90, 101: nullAt = k > 0 means the k-th jack_port_get_buffer of
\* the call (input 0, input 1, output 0, output 1) returned NULL; the
\* assertion after it fails.  The position of that fetch in the steps.
AssertPos(tc, nullAt) ==
    IF nullAt <= DEVICE_CHANNELS
        THEN nullAt
        ELSE Len(process_deck_steps(tc)) - 2 - (2 * DEVICE_CHANNELS - nullAt)

\* The assertions on the port buffers compiled out.
process_deck_events_unchecked(tc, nullAt) == process_deck_steps(tc)

\* jack.c:79-106: the steps process_deck performs before it returns or the
\* process ends.
process_deck_events(tc, nullAt) ==
    IF nullAt = 0
        THEN process_deck_steps(tc)
        ELSE SubSeq(process_deck_steps(tc), 1, AssertPos(tc, nullAt))

\* jack.c:79-106.  Reading the jack_t of a device after clear freed it is
\* undefined: the call behaves as if the record were intact, or the
\* process dies.
process_deck(dv, nf) ==
    \E tc \in BOOLEAN, nullAt \in 0..(2 * DEVICE_CHANNELS),
       wild \in (IF local[dv] = "freed" THEN BOOLEAN ELSE {FALSE}) :
        LET dies == wild IN
        /\ lastRun' = [dv |-> dv, tc |-> tc,
                       events |-> IF dies THEN <<>>
                                  ELSE process_deck_events(tc, nullAt),
                       done |-> ~dies /\ nullAt = 0,
                       rate |-> rate,
                       null |-> IF dies THEN 0 ELSE nullAt]
        /\ proc' = IF dies THEN "crash"
                   ELSE IF nullAt # 0 THEN "assert"
                   ELSE proc
        /\ callLog' = Append(callLog, <<dv, nf>>)

\* The loop walking the registry from its end.
DeckAt_reversed(i) == device[decks - 1 - i]

\* jack.c:117: the device the loop passes to process_deck at index i.
DeckAt(i) == device[i]

\* jack.c:116: the loop condition.
LoopGoes == n < decks

\* jack.c:147, 198: the server runs cycles for a client that is active and
\* has a process callback.
CallbackArmed == active /\ cbInstalled

\* jack.c:112-120.  The server calls it once the client is active and the
\* callback installed; each iteration of the loop is one step.
process_callback ==
    /\ proc = "running"
    /\ \/ /\ cbpc = "idle"
          /\ CallbackArmed
          /\ \E nf \in Frames : nframes' = nf
          /\ cbpc' = "loop"
          /\ n' = 0
          /\ callLog' = <<>>
          /\ lastRun' = NoRun
          /\ UNCHANGED proc
       \/ /\ cbpc = "loop"
          /\ LoopGoes
          /\ process_deck(DeckAt(n), nframes)
          /\ n' = n + 1
          /\ UNCHANGED <<cbpc, nframes>>
       \/ /\ cbpc = "loop"
          /\ ~LoopGoes
          /\ cbpc' = "idle"
          /\ n' = 0
          /\ nframes' = 0
          /\ callLog' = <<>>
          /\ lastRun' = NoRun
          /\ UNCHANGED proc
    /\ UNCHANGED appVars
    /\ UNCHANGED <<stepVars, convVars>>

\* ------------------------------------------------------------------------

\* Every call of the application is one step; the server's notification
\* is not recorded.
Next ==
    \/ \E dv \in Devices : jack_init(dv)
    \/ \E dv \in Devices : start(dv)
    \/ \E dv \in Devices : stop(dv)
    \/ \E dv \in Devices : clear(dv)
    \/ shutdown_callback /\ UNCHANGED notified
    \/ process_callback

Spec == Init /\ [][Next]_vars

\* ------------------------------------------------------------------------
\* jack_init statement by statement.  The application thread stands before
\* one line of jack_init or is outside it; the JACK thread and the server's
\* notification run between any two of its statements.

\* Sample rates the server may report in SpecSteps.
ServerRates == {44100, 48000}

\* SpecSteps hands the device records to jack_init in their order.
StepCandidates == {dv \in Candidates : \A e \in Candidates : dv <= e}

\* jack.c:226: the call.
jack_init_call(dv) ==
    /\ proc = "running"
    /\ ipc = "idle"
    /\ dv \in StepCandidates
    /\ ipc' = "l232"
    /\ idv' = dv
    /\ UNCHANGED <<jackVars, orphan, notified, opens, installs, convVars>>

\* jack.c:232-235: start_jack_client when there is no client; -1 when it
\* fails.
jack_init_l232 ==
    /\ proc = "running"
    /\ ipc = "l232"
    /\ \E openOk \in (IF NeedClient THEN BOOLEAN ELSE {TRUE}),
          cbOk \in (IF NeedClient THEN BOOLEAN ELSE {TRUE}),
          r \in ServerRates :
         LET res == IF NeedClient
                        THEN start_jack_client_result(openOk, cbOk)
                        ELSE "ok" IN
         /\ IF NeedClient
               THEN /\ start_jack_client(openOk, cbOk, r)
                    /\ opens' = IF openOk THEN opens + 1 ELSE opens
                    /\ installs' = IF openOk /\ cbOk
                                      THEN installs + 1 ELSE installs
               ELSE UNCHANGED <<client, cbInstalled, shutdownInstalled,
                                rate, opens, installs>>
         /\ IF res = "ok"
               THEN /\ ipc' = "l237"
                    /\ UNCHANGED <<idv, ret>>
               ELSE /\ ipc' = "idle"
                    /\ idv' = NoDevice
                    /\ ret' = res
    /\ UNCHANGED <<decks, device, local, hooks, active, activateCalls, proc,
                   cbVars, orphan, notified, convVars>>

\* jack.c:237-241: malloc; -1 when it fails.
jack_init_l237 ==
    /\ proc = "running"
    /\ ipc = "l237"
    /\ \E mallocOk \in BOOLEAN :
         IF mallocOk
            THEN /\ ipc' = "l243"
                 /\ UNCHANGED <<idv, ret>>
            ELSE /\ ipc' = "idle"
                 /\ idv' = NoDevice
                 /\ ret' = "malloc"
    /\ UNCHANGED <<client, rate, decks, device, local, hooks, cbInstalled,
                   shutdownInstalled, active, activateCalls, proc, cbVars,
                   orphan, notified, opens, installs, convVars>>

\* jack.c:260-262: the label fail, which frees the jack_t, is the target of
\* no goto: the failure of register_ports does not release the record.
FreesOnFailure == FALSE

\* jack.c:243-244: register_ports; on failure return -1, and the only
\* pointer to the jack_t, the local variable jack, is gone.
jack_init_l243 ==
    /\ proc = "running"
    /\ ipc = "l243"
    /\ \E failAt \in 0..(2 * DEVICE_CHANNELS) :
         IF register_ports(failAt) = "ok"
            THEN /\ ipc' = "l246"
                 /\ UNCHANGED <<idv, ret, orphan>>
            ELSE /\ ipc' = "idle"
                 /\ idv' = NoDevice
                 /\ ret' = "ports"
                 /\ orphan' = (orphan \/ ~FreesOnFailure)
    /\ UNCHANGED <<client, rate, decks, device, local, hooks, cbInstalled,
                   shutdownInstalled, active, activateCalls, proc, cbVars,
                   notified, opens, installs, convVars>>

\* jack.c:246: dv->local = jack
jack_init_l246 ==
    /\ proc = "running"
    /\ ipc = "l246"
    /\ local' = [local EXCEPT ![idv] = "alloc"]
    /\ ipc' = "l248"
    /\ UNCHANGED <<client, rate, decks, device, hooks, cbInstalled,
                   shutdownInstalled, active, activateCalls, ret, proc,
                   cbVars, idv, orphan, notified, opens, installs, convVars>>

\* jack.c:248-252: the remaining fields of dv, the three hooks among them.
jack_init_l248 ==
    /\ proc = "running"
    /\ ipc = "l248"
    /\ hooks' = [hooks EXCEPT ![idv] = TRUE]
    /\ ipc' = "l254"
    /\ UNCHANGED <<client, rate, decks, device, local, cbInstalled,
                   shutdownInstalled, active, activateCalls, ret, proc,
                   cbVars, idv, orphan, notified, opens, installs, convVars>>

\* jack.c:254: assert(decks < MAX_DECKS)
jack_init_l254 ==
    /\ proc = "running"
    /\ ipc = "l254"
    /\ IF CanRegister
          THEN ipc' = "l255" /\ UNCHANGED proc
          ELSE proc' = "assert" /\ UNCHANGED ipc
    /\ UNCHANGED <<appVars, cbVars, idv, orphan, notified, opens, installs,
                   convVars>>

\* The deck count raised before the entry is stored.
jack_init_l255_count_first ==
    /\ proc = "running"
    /\ ipc = "l255"
    /\ decks' = decks + 1
    /\ ipc' = "l256"
    /\ UNCHANGED <<client, rate, device, local, hooks, cbInstalled,
                   shutdownInstalled, active, activateCalls, ret, proc,
                   cbVars, idv, orphan, notified, opens, installs, convVars>>

\* jack.c:255: device[decks] = dv
jack_init_l255 ==
    /\ proc = "running"
    /\ ipc = "l255"
    /\ device' = [device EXCEPT ![decks] = idv]
    /\ ipc' = "l256"
    /\ UNCHANGED <<client, rate, decks, local, hooks, cbInstalled,
                   shutdownInstalled, active, activateCalls, ret, proc,
                   cbVars, idv, orphan, notified, opens, installs, convVars>>

\* jack.c:256-258: decks++; return 0
jack_init_l256 ==
    /\ proc = "running"
    /\ ipc = "l256"
    /\ decks' = decks + 1
    /\ ret' = "ok"
    /\ ipc' = "idle"
    /\ idv' = NoDevice
    /\ UNCHANGED <<client, rate, device, local, hooks, cbInstalled,
                   shutdownInstalled, active, activateCalls, proc, cbVars,
                   orphan, notified, opens, installs, convVars>>

\* The application thread is a single thread: it calls a hook only outside
\* jack_init.
NextSteps ==
    \/ \E dv \in Devices : jack_init_call(dv)
    \/ jack_init_l232
    \/ jack_init_l237
    \/ jack_init_l243
    \/ jack_init_l246
    \/ jack_init_l248
    \/ jack_init_l254
    \/ jack_init_l255
    \/ jack_init_l256
    \/ \E dv \in Devices : ipc = "idle" /\ start(dv)
    \/ \E dv \in Devices : ipc = "idle" /\ stop(dv)
    \/ \E dv \in Devices : ipc = "idle" /\ clear(dv)
    \/ shutdown_callback /\ notified' = TRUE
    \/ process_callback

SpecSteps == Init /\ [][NextSteps]_vars

\* ------------------------------------------------------------------------
\* One process_deck call with its samples.  A native sample (a float of the
\* server) is an integer k standing for k / (SubSteps * SCALE); these
\* values, their products with SCALE and the quotients of a short by SCALE
\* are exact in single precision.

\* jack.c:31
SCALE == 32768

\* jack.c:82: signed short buf[1024 * 2]
BUF_FRAMES == 1024

\* Width of signed short (jack.c:46, 52).
SHORT_BITS == 16

\* Native samples are told apart down to 1/SubSteps of a fixed-point step.
SubSteps == 4

\* Besides the sizes around the capacity of buf, cycles of 1..MaxConvFrames
\* frames are followed.
MaxConvFrames == 2

ShortMin == -(2 ^ (SHORT_BITS - 1))
ShortMax == 2 ^ (SHORT_BITS - 1) - 1

\* The integer part of a / b for b > 0: what a conversion of a float to an
\* integer type keeps.
Trunc(a, b) == IF a >= 0 THEN a \div b ELSE -((-a) \div b)

\* jack.c:52: *jbuf[n] * SCALE, with the fraction the cast discards.
Scaled(k) == Trunc(k, SubSteps)

\* jack.c:52: the cast to signed short.  A value with an integer part
\* outside the range of short has no defined result: the build wraps it
\* modulo 2^16 or saturates it.
ToShort(x, wrap) ==
    IF x >= ShortMin /\ x <= ShortMax THEN x
    ELSE IF wrap
        THEN ((x - ShortMin) % (2 ^ SHORT_BITS)) + ShortMin
    ELSE IF x < ShortMin THEN ShortMin
    ELSE ShortMax

\* The conversion rounding to the nearest integer, halves away from zero.
to_short_rounds(k) ==
    ToShort(IF k >= 0 THEN (2 * k + SubSteps) \div (2 * SubSteps)
            ELSE -((SubSteps - 2 * k) \div (2 * SubSteps)), wraps)

\* jack.c:52: (signed short)(*jbuf[n] * SCALE)
to_short(k) == ToShort(Scaled(k), wraps)

\* The quotient taken in integer arithmetic, the cast to float left out.
from_short_integer(q) == Trunc(q, SCALE) * SubSteps * SCALE

\* jack.c:68: (jack_default_audio_sample_t)*buf / SCALE
from_short(q) == q * SubSteps

\* jack.c:46-57: frame by frame, channel by channel within a frame.
interleave(jbuf, nf) ==
    [i \in 1..(nf * DEVICE_CHANNELS) |->
        to_short(jbuf[((i - 1) % DEVICE_CHANNELS) + 1]
                     [((i - 1) \div DEVICE_CHANNELS) + 1])]

\* jack.c:62-73
uninterleave(b, nf) ==
    [c \in 1..DEVICE_CHANNELS |->
        [f \in 1..nf |-> from_short(b[(f - 1) * DEVICE_CHANNELS + c])]]

\* Native samples the server delivers: around zero, fractions of a step,
\* the ends of the range, and values beyond it.
NativeSamples ==
    <<0, 3, -3, 2, SubSteps * SCALE - 1, -(SubSteps * SCALE), 5, -6,
      SubSteps * 12345 + 1, -(SubSteps * SCALE) - 1, SubSteps * SCALE,
      -(SubSteps * 20000) - 2, SubSteps * (SCALE + 100), 1>>

\* Fixed-point samples the player renders.
PlayerSamples == <<ShortMax, -1, 0, ShortMin, 1234, -4321, 1>>

\* The frame counts of the cycles followed.
ConvFrames == (1..MaxConvFrames) \cup {BUF_FRAMES, BUF_FRAMES + 1}

\* The input port buffers of a cycle of nf frames: NativeSamples from
\* index first on, in interleaved order.
InputBuffers(first, nf) ==
    [c \in 1..DEVICE_CHANNELS |->
        [f \in 1..nf |->
            NativeSamples[((first + (f - 1) * DEVICE_CHANNELS + (c - 1))
                              % Len(NativeSamples)) + 1]]]

\* What the player writes when it renders fill frames.
PlayerOutput(first, fill) ==
    [i \in 1..(fill * DEVICE_CHANNELS) |->
        PlayerSamples[((first + i - 1) % Len(PlayerSamples)) + 1]]

\* The server's buffers, the deck's decoder, the player's rendering and the
\* build are the inputs of the call.
ConvInit ==
    /\ JackInit
    /\ StepsInit
    /\ dpos = 0
    /\ dframes \in ConvFrames
    /\ dtc \in BOOLEAN
    /\ wraps \in BOOLEAN
    /\ \E first \in 0..(Len(NativeSamples) - 1) :
         jin = InputBuffers(first, dframes)
    /\ \E first \in 0..1, fill \in {0, dframes - 1, dframes} :
         played = PlayerOutput(first, fill)
    /\ buf = <<>>
    /\ sent = <<>>
    /\ jout = <<>>
    /\ oob = FALSE

\* The step of process_deck that is next.
NextStep == process_deck_steps(dtc)[dpos + 1]

DeckRuns ==
    /\ proc = "running"
    /\ jin # <<>>
    /\ dpos < Len(process_deck_steps(dtc))

\* jack.c:88-91, 99-102: the buffers of the ports are fetched; NULL
\* buffers are followed in Spec.
deck_fetch ==
    /\ DeckRuns
    /\ NextStep \in {"in0", "in1", "out0", "out1"}
    /\ dpos' = dpos + 1
    /\ UNCHANGED <<dframes, dtc, jin, buf, sent, played, jout, oob, wraps>>
    /\ UNCHANGED <<jackVars, stepVars>>

\* jack.c:82: the number of samples buf holds.
BufSamples == BUF_FRAMES * DEVICE_CHANNELS

\* jack.c:93: interleave(buf, jbuf, nframes) writes nframes * 2 samples
\* whatever the size of buf.  Writing beyond buf is undefined: the call
\* goes on with the stack overwritten, or the process dies.
deck_interleave ==
    /\ DeckRuns
    /\ NextStep = "interleave"
    /\ dpos' = dpos + 1
    /\ buf' = interleave(jin, dframes)
    /\ oob' = (dframes * DEVICE_CHANNELS > BufSamples)
    /\ \E dies \in (IF oob' THEN BOOLEAN ELSE {FALSE}) :
         proc' = IF dies THEN "crash" ELSE proc
    /\ UNCHANGED <<dframes, dtc, jin, sent, played, jout, wraps>>
    /\ UNCHANGED <<appVars, cbVars, stepVars>>

\* jack.c:95: timecoder_submit(dv->timecoder, buf, nframes, rate)
deck_submit ==
    /\ DeckRuns
    /\ NextStep = "submit"
    /\ dpos' = dpos + 1
    /\ sent' = buf
    /\ UNCHANGED <<dframes, dtc, jin, buf, played, jout, oob, wraps>>
    /\ UNCHANGED <<jackVars, stepVars>>

\* jack.c:104: player_collect(dv->player, buf, nframes, rate) writes what
\* the player renders over the start of buf.
deck_collect ==
    /\ DeckRuns
    /\ NextStep = "collect"
    /\ dpos' = dpos + 1
    /\ buf' = played \o SubSeq(buf, Len(played) + 1, Len(buf))
    /\ UNCHANGED <<dframes, dtc, jin, sent, played, jout, oob, wraps>>
    /\ UNCHANGED <<jackVars, stepVars>>

\* jack.c:105: uninterleave(jbuf, buf, nframes)
deck_uninterleave ==
    /\ DeckRuns
    /\ NextStep = "uninterleave"
    /\ dpos' = dpos + 1
    /\ jout' = uninterleave(buf, dframes)
    /\ UNCHANGED <<dframes, dtc, jin, buf, sent, played, oob, wraps>>
    /\ UNCHANGED <<jackVars, stepVars>>

NextConv ==
    \/ deck_fetch
    \/ deck_interleave
    \/ deck_submit
    \/ deck_collect
    \/ deck_uninterleave

SpecConv == ConvInit /\ [][NextConv]_vars

\* ------------------------------------------------------------------------
\* Properties

\* The registry as the sequence of process_deck calls a whole cycle makes.
RegistryCalls(k) == [i \in 1..k |-> <<device[i - 1], nframes>>]

\* Number of occurrences of step e in the sequence ev.
Occurrences(ev, e) == Cardinality({k \in 1..Len(ev) : ev[k] = e})

\* The process_callback step that leaves the loop and returns.
CallbackReturns == cbpc = "loop" /\ cbpc' = "idle"

\* C1: inside a cycle the process_deck calls made so far are the first n
\* registry entries, in registration order, each once, with the cycle's
\* frame count; when process_callback returns they are exactly the
\* registered decks, and no other device.
C1_DeckOrder ==
    /\ [](cbpc = "loop" =>
            /\ n <= decks
            /\ callLog = RegistryCalls(n))
    /\ [][CallbackReturns => callLog = RegistryCalls(decks)]_vars

\* C1: a cycle that has processed a full registry whose order is not the
\* order of the device records.
C1_Witness ==
    /\ proc = "running"
    /\ cbpc = "loop"
    /\ decks = MAX_DECKS
    /\ n = decks
    /\ device[0] > device[1]
    /\ nframes = MaxFrames

\* C2: the deck count never exceeds MAX_DECKS; a jack_init that reaches the
\* registration with MAX_DECKS decks registered ends the process by a
\* failed assertion, leaves every registry entry and the count as they
\* were, and returns nothing.
C2_Capacity ==
    /\ [](decks <= MAX_DECKS)
    /\ [][(decks = MAX_DECKS /\ hooks' # hooks) =>
            /\ proc' = "assert"
            /\ device' = device
            /\ decks' = decks
            /\ ret' = ret]_vars

\* C2: the fifth jack_init has ended in the assertion.
C2_Witness ==
    /\ proc = "assert"
    /\ decks = MAX_DECKS
    /\ \A d \in Devices : hooks[d]
    /\ \A i \in 0..(MAX_DECKS - 1) : device[i] # NoDevice

\* C3: no step lowers the deck count or changes an entry below it.
C3_AppendOnly ==
    [][/\ decks' >= decks
       /\ \A i \in 0..(decks - 1) : device'[i] = device[i]]_vars

\* C3: decks registered, one of them cleared, the client active, and a
\* later jack_init failed.
C3_Witness ==
    /\ decks >= 2
    /\ local[device[0]] = "freed"
    /\ active
    /\ ret = "ports"

\* C4 as claimed: every process_deck call that returns has made exactly
\* one submit-to-decoder and exactly one collect-from-player call.
C4_OneSubmitOneCollect ==
    lastRun.done =>
        /\ Occurrences(lastRun.events, "submit") = 1
        /\ Occurrences(lastRun.events, "collect") = 1

\* C4 amended: every process_deck call that returns has made exactly one
\* collect-from-player call, and exactly one submit-to-decoder call when a
\* decoder is attached, none when no decoder is attached.
C4_SubmitIfAttached ==
    lastRun.done =>
        /\ Occurrences(lastRun.events, "collect") = 1
        /\ Occurrences(lastRun.events, "submit") = (IF lastRun.tc THEN 1 ELSE 0)

\* C4: a deck without decoder has been processed to the end.
C4_Witness ==
    /\ lastRun.done
    /\ ~lastRun.tc
    /\ lastRun.dv # NoDevice

\* C5 as claimed: the client is asked to activate at most once, however
\* many start requests are made.
C5_ActivatedOnce == activateCalls <= 1

\* C6 as claimed: after a jack_init that failed at the client open, the
\* next jack_init fails at the open too and no client is opened.
C6_NoRetry ==
    [][ret = "open" => (ret' = "open" /\ client' = "NULL")]_vars

\* C6 amended: a jack_init that fails at the client open leaves no client,
\* no callback and no deck behind, so the next jack_init finds no client and
\* asks for the open again: whenever it ends otherwise than by a failed
\* open, the client has been opened in that call.
C6_RetryOpens ==
    /\ [](ret = "open" =>
            /\ client = "NULL"
            /\ ~cbInstalled
            /\ decks = 0)
    /\ [][(ret = "open" /\ ret' # "open") => client' = "open"]_vars

\* C6: a jack_init has failed at the client open.
C6_Witness ==
    /\ ret = "open"
    /\ client = "NULL"
    /\ proc = "running"

\* C7 as claimed: once a jack_init has failed at the callback installation
\* (the client is open and holds no process callback), no deck is ever
\* registered and the client never becomes active.
C7_CallbackFailureIsFinal ==
    (client = "open" /\ ~cbInstalled) => (decks = 0 /\ ~active)

\* The outcomes with which jack_init returns -1.
InitFailures == {"open", "callback", "malloc", "ports"}

\* The registry holds device d.
Registered(d) == \E i \in 0..(decks - 1) : device[i] = d

\* C8: a jack_init that returns failure leaves the deck count, the
\* registry entries, and every device's local pointer and hooks as they
\* were; so a device has its local pointer and hooks set only if it is
\* registered, and the process callback only ever processes devices that
\* are registered and have them set.
C8_FailedInitAborts ==
    /\ [][(ret' # ret /\ ret' \in InitFailures) =>
            UNCHANGED <<decks, device, local, hooks>>]_vars
    /\ [](proc = "running" =>
            \A d \in Devices :
                (hooks[d] \/ local[d] # "none") => Registered(d))
    /\ [](\A k \in 1..Len(callLog) :
            /\ hooks[callLog[k][1]]
            /\ local[callLog[k][1]] # "none")

\* C8: a jack_init failed at the port registration while another deck is
\* registered and a cycle is running.
C8_Witness ==
    /\ ret = "ports"
    /\ decks >= 1
    /\ cbpc = "loop"
    /\ n >= 1
    /\ \E d \in Devices : Uninitialised(d)

\* The stage of the client: 0 Uninitialized, 1 ClientOpen, 2 Registering
\* (a deck is registered), 3 Active.
LifecycleStage ==
    IF client = "NULL" THEN 0
    ELSE IF active THEN 3
    ELSE IF decks > 0 THEN 2
    ELSE 1

\* C9: the client only moves forward: an open handle stays open, an active
\* client stays active and an installed callback stays installed through
\* every stop, clear, shutdown notification and any other step, so the
\* server keeps running cycles over the registered decks.
C9_LifecycleForward ==
    [][/\ LifecycleStage' >= LifecycleStage
       /\ client = "open" => client' = "open"
       /\ active => active'
       /\ CallbackArmed => CallbackArmed']_vars

\* C9: a cycle runs over a deck that was cleared, in an active client.
C9_Witness ==
    /\ proc = "running"
    /\ CallbackArmed
    /\ cbpc = "loop"
    /\ n >= 2
    /\ local[device[0]] = "freed"

\* C10 as claimed: while process_callback runs, nothing writes the client
\* handle, the sample rate, the deck count or a registry entry.
C10_NoWriteDuringCycle ==
    [][cbpc = "loop" => UNCHANGED <<client, rate, decks, device>>]_vars

\* The steps of the JACK thread.
CallbackStep == cbpc' # cbpc \/ n' # n

\* C10 amended: the client handle and the sample rate are written only
\* before the client is activated, hence before the first cycle, and a
\* cycle runs only with both set; the process callback itself writes none
\* of the shared state.  The deck count and the registry are written by
\* every successful jack_init, also one made during a cycle.
C10_ClientSetBeforeCycles ==
    /\ [][(active \/ cbpc = "loop") => UNCHANGED <<client, rate>>]_vars
    /\ [][CallbackStep => UNCHANGED <<client, rate, decks, device>>]_vars
    /\ [](cbpc = "loop" => (client = "open" /\ rate \in Rates))

\* C10: a deck has been registered while a cycle was running.
C10_Witness ==
    /\ cbpc = "loop"
    /\ ret = "ok"
    /\ n < decks
    /\ n >= 1
    /\ callLog = RegistryCalls(n)
    /\ decks = MAX_DECKS

\* The steps of process_deck that fetch a port buffer.
InputFetches == {"in0", "in1"}
OutputFetches == {"out0", "out1"}

\* C16: a NULL port buffer ends the process by the assertion right after
\* the fetch that returned it: the call stops at that fetch, an input
\* buffer before interleave reads it, an output buffer before
\* player_collect and uninterleave, and a process that has ended takes no
\* further step, so no further deck is processed.
C16_NullBufferIsFatal ==
    /\ [](lastRun.null # 0 =>
            LET ev == lastRun.events IN
            /\ proc = "assert"
            /\ ~lastRun.done
            /\ Len(ev) > 0
            /\ ev[Len(ev)] \in InputFetches \cup OutputFetches
            /\ ev[Len(ev)] \in InputFetches =>
                   (lastRun.null <= DEVICE_CHANNELS
                    /\ Occurrences(ev, "interleave") = 0)
            /\ ev[Len(ev)] \in OutputFetches =>
                   (lastRun.null > DEVICE_CHANNELS
                    /\ Occurrences(ev, "collect") = 0)
            /\ Occurrences(ev, "uninterleave") = 0)
    /\ [][proc # "running" => UNCHANGED vars]_vars

\* C16: the second deck of a cycle got a NULL output buffer.
C16_Witness ==
    /\ proc = "assert"
    /\ lastRun.null = 2 * DEVICE_CHANNELS
    /\ n = 2
    /\ decks >= 3

\* C18 as claimed: whenever the process callback hands a deck to
\* process_deck, the jack_t of that deck is allocated and not freed.
C18_NoUseAfterClear ==
    [][(cbpc = "loop" /\ n' = n + 1) => local[DeckAt(n)] = "alloc"]_vars

\* Device d has its jack_t with all four ports attached and its hooks set.
Initialised(d) == d # NoDevice /\ local[d] # "none" /\ hooks[d]

\* C19: with jack_init taken statement by statement and the process
\* callback running between any two statements, every device handed to
\* process_deck is initialised; jack_init stores a device only once its
\* local pointer and hooks are set, and counts it only once it is stored,
\* so every entry below the deck count names an initialised device.
C19_NoPartlyInitialisedDeck ==
    /\ [][(cbpc = "loop" /\ n' = n + 1) => Initialised(DeckAt(n))]_vars
    /\ [](\A i \in 0..(decks - 1) : Initialised(device[i]))
    /\ [](ipc \in {"l255", "l256"} => Initialised(idv))
    /\ [](ipc = "l256" => device[decks] = idv)

\* C19: the client is active, a cycle has gone through the registered
\* decks, and jack_init has stored a further device it has not yet counted.
C19_Witness ==
    /\ proc = "running"
    /\ active
    /\ cbpc = "loop"
    /\ ipc = "l256"
    /\ decks >= 1
    /\ n = decks
    /\ Len(callLog) = decks

\* C20 as claimed: no jack_t is left allocated without an owner.
C20_NoOrphan == ~orphan

\* C12: the client is opened successfully at most once, by a jack_init
\* that found none; the process callback is installed at most once, and
\* the shutdown handler with it; the sample rate, once recorded, never
\* changes, and every process_deck call passes that rate on.
C12_SingleClient ==
    /\ [](opens <= 1 /\ installs <= 1)
    /\ [](opens = 1 <=> client = "open")
    /\ [](installs = 1 <=> cbInstalled)
    /\ [](shutdownInstalled <=> cbInstalled)
    /\ [][opens' # opens => (client = "NULL" /\ client' = "open")]_vars
    /\ [][rate # 0 => rate' = rate]_vars
    /\ [](lastRun.dv # NoDevice =>
            (lastRun.rate = rate /\ rate \in ServerRates))

\* C12: after a failed and a successful open, two decks have been
\* processed at the rate recorded.
C12_Witness ==
    /\ opens = 1
    /\ installs = 1
    /\ decks >= 2
    /\ n = 2
    /\ lastRun.done
    /\ lastRun.rate = 48000

\* C17: the step in which the server notifies the shutdown changes no
\* variable of jack.c, of the devices or of the threads; a cycle that
\* returns after the notification has still processed every registered
\* deck.
C17_ShutdownIsInert ==
    /\ [][notified' # notified => UNCHANGED jackVars]_vars
    /\ [][(notified /\ CallbackReturns) => callLog = RegistryCalls(decks)]_vars
    /\ [](notified => (client = "open" /\ shutdownInstalled))

\* C17: notified, and a cycle has processed all registered decks.
C17_Witness ==
    /\ notified
    /\ proc = "running"
    /\ cbpc = "loop"
    /\ decks >= 2
    /\ n = decks
    /\ callLog = RegistryCalls(decks)

\* C11 as claimed: no process_deck call reads or writes buf beyond its
\* 1024 * 2 samples, whatever frame count the server delivers.
C11_BufferBound == ~oob

\* The steps of the followed call.
Steps == process_deck_steps(dtc)

\* Step e is the one done last.
JustDid(e) == dpos >= 1 /\ Steps[dpos] = e

\* Step e has been done.
StepDone(e) == \E i \in 1..dpos : Steps[i] = e

\* The place of step e among the steps.
StepIndex(e) == CHOOSE i \in 1..Len(Steps) : Steps[i] = e

\* The call has returned.
DeckReturned == dpos = Len(Steps)

\* The native sample of frame f, channel c of the input.
InputAt(f, c) == jin[c][f]

\* The place of frame f, channel c in an interleaved buffer.
Slot(f, c) == (f - 1) * DEVICE_CHANNELS + c

Abs(x) == IF x < 0 THEN -x ELSE x

\* -1.0 <= v < 1.0
InFixedRange(k) == k >= -(SubSteps * SCALE) /\ k < SubSteps * SCALE

\* C13: a native sample in the range -1.0 <= v < 1.0, interleaved and
\* uninterleaved again (the player left the buffer as it was), comes back
\* within 1/32768 of its value.
C13_RoundTrip ==
    (DeckReturned /\ Len(played) = 0) =>
        \A f \in 1..dframes, c \in 1..DEVICE_CHANNELS :
            InFixedRange(InputAt(f, c)) =>
                Abs(jout[c][f] - InputAt(f, c)) <= SubSteps

\* C13: a round trip that lost the fraction of a sample below 1/32768,
\* and one of a negative sample.
C13_Witness ==
    /\ DeckReturned
    /\ Len(played) = 0
    /\ dframes >= 2
    /\ \E f \in 1..dframes, c \in 1..DEVICE_CHANNELS :
         /\ InputAt(f, c) = 3
         /\ jout[c][f] = 0
    /\ \E f \in 1..dframes, c \in 1..DEVICE_CHANNELS :
         /\ InputAt(f, c) < 0
         /\ InFixedRange(InputAt(f, c))
         /\ jout[c][f] # InputAt(f, c)

\* The integer nearest to k / SubSteps, halves away from zero.
Nearest(k) ==
    IF k >= 0 THEN (2 * k + SubSteps) \div (2 * SubSteps)
    ELSE -((SubSteps - 2 * k) \div (2 * SubSteps))

\* C14 as claimed: interleave stores, frame by frame and channel by
\* channel, the scaled sample rounded to the nearest integer (samples
\* within -1.0 <= v < 1.0).
C14_RoundsToNearest ==
    JustDid("interleave") =>
        \A f \in 1..dframes, c \in 1..DEVICE_CHANNELS :
            InFixedRange(InputAt(f, c)) =>
                buf[Slot(f, c)] = Nearest(InputAt(f, c))

\* q is k / SubSteps with its fraction discarded.
IsTruncationOf(q, k) ==
    /\ k >= 0 => (q * SubSteps <= k /\ k < (q + 1) * SubSteps)
    /\ k <= 0 => ((q - 1) * SubSteps < k /\ k <= q * SubSteps)

\* The integer part of the scaled sample is a value of signed short.
Representable(k) ==
    k > (ShortMin - 1) * SubSteps /\ k < (ShortMax + 1) * SubSteps

\* C14 amended: interleave writes nframes * 2 samples, frame by frame and
\* channel by channel, each the scaled sample with its fraction discarded
\* (truncated toward zero), for every sample whose scaled value has an
\* integer part in the range of signed short.
C14_Truncates ==
    JustDid("interleave") =>
        /\ Len(buf) = dframes * DEVICE_CHANNELS
        /\ \A f \in 1..dframes, c \in 1..DEVICE_CHANNELS :
             Representable(InputAt(f, c)) =>
                 IsTruncationOf(buf[Slot(f, c)], InputAt(f, c))

\* C14: interleave has stored 0 both for a sample one quarter of a step
\* below 1/32768 and for one as far above -1/32768, in two frames.
C14_Witness ==
    /\ JustDid("interleave")
    /\ dframes = 2
    /\ \E f \in 1..dframes, c \in 1..DEVICE_CHANNELS :
         InputAt(f, c) = 3 /\ buf[Slot(f, c)] = 0
    /\ \E f \in 1..dframes, c \in 1..DEVICE_CHANNELS :
         InputAt(f, c) = -3 /\ buf[Slot(f, c)] = 0

\* C15: the steps of a call stand in the order input fetches, interleave,
\* submit (with a decoder only), output fetches, collect, uninterleave;
\* what the decoder is given is the interleaved input of the call; and
\* when the player renders all frames, every output sample is the
\* player's sample divided by 32768.
C15_StepsAndDataFlow ==
    /\ Len(Steps) = 7 + (IF dtc THEN 1 ELSE 0)
    /\ StepIndex("in0") < StepIndex("in1")
    /\ StepIndex("in1") < StepIndex("interleave")
    /\ StepIndex("interleave") < StepIndex("out0")
    /\ dtc => (/\ StepIndex("interleave") < StepIndex("submit")
               /\ StepIndex("submit") < StepIndex("out0"))
    /\ StepIndex("out0") < StepIndex("out1")
    /\ StepIndex("out1") < StepIndex("collect")
    /\ StepIndex("collect") < StepIndex("uninterleave")
    /\ StepIndex("uninterleave") = Len(Steps)
    /\ ~StepDone("submit") => sent = <<>>
    /\ StepDone("submit") =>
          /\ Len(sent) = dframes * DEVICE_CHANNELS
          /\ \A f \in 1..dframes, c \in 1..DEVICE_CHANNELS :
               Representable(InputAt(f, c)) =>
                   IsTruncationOf(sent[Slot(f, c)], InputAt(f, c))
    /\ (DeckReturned /\ Len(played) = dframes * DEVICE_CHANNELS) =>
          \A f \in 1..dframes, c \in 1..DEVICE_CHANNELS :
              jout[c][f] = played[Slot(f, c)] * SubSteps

\* C15: a call with a decoder has returned; the decoder got the input,
\* the output is the player's rendering and differs from the input.
C15_Witness ==
    /\ DeckReturned
    /\ dtc
    /\ dframes = 2
    /\ Len(played) = dframes * DEVICE_CHANNELS
    /\ Len(sent) = dframes * DEVICE_CHANNELS
    /\ sent # played
    /\ jout[1][1] = ShortMax * SubSteps
    /\ InputAt(1, 1) = 0

====
